---- MODULE Spec2Model ----
(***************************************************************************)
(* Model of overlap(parcels, zones, joined_gdf) from fn_overlap.py: the    *)
(* resolution of a one-to-many parcel/zone join into one zoning label per  *)
(* parcel.  A collection is a sequence of rows.  A parcel row is its APN;  *)
(* a zone row is its label; a join row is [apn, zone].  Geometry is only   *)
(* read by gpd.overlay, so the intersection geometry of each (ambiguous    *)
(* parcel row, zone row) pair is drawn when the overlay runs.              *)
(***************************************************************************)
EXTENDS Integers, Sequences, FiniteSets

\* ---------------------------------------------------------------- bounds
MaxParcels == 2
MaxZones == 2
MaxJoin == 3
MaxArea == 3

\* ---------------------------------------------------------- value domains
Ids == {1, 2}
null == "null"
JoinLabels == {"A", "B"}
ZoneLabels == {"A", "B", "C"}
Attrs == {"parcels.apn", "parcels.geometry", "zones.zone", "zones.geometry",
          "joined.apn", "joined.zone"}

BSeq(S, n) == UNION {[1..k -> S] : k \in 0..n}

ParcelColls == BSeq(Ids, MaxParcels)
ZoneColls == BSeq(ZoneLabels \cup {null}, MaxZones)
JoinRows == [apn : Ids, zone : JoinLabels \cup {null}]
JoinColls == BSeq(JoinRows, MaxJoin)

\* An intersection geometry: nothing (the pair does not intersect), a line
\* (the pair only touches; size is its length) or a polygon (size is its area).
NoGeom == [type |-> "Empty", size |-> 0]
Geoms == {NoGeom} \cup {[type |-> "LineString", size |-> 1]}
         \cup {[type |-> "Polygon", size |-> a] : a \in 1..MaxArea}

VARIABLES parcels, zones, joined, missing, pc, stages, single_ids, single_map,
          dup_ids, overlaps, crs, poly_area, multi_map, final_map, out

vars == <<parcels, zones, joined, missing, pc, stages, single_ids, single_map,
          dup_ids, overlaps, crs, poly_area, multi_map, final_map, out>>

\* ------------------------------------------------------------ helpers
Range(s) == {s[i] : i \in DOMAIN s}

Min(S) == CHOOSE x \in S : \A y \in S : x <= y

\* The elements of a set of integers in ascending order (a sorted index).
RECURSIVE SortedSeq(_)
SortedSeq(S) == IF S = {} THEN <<>> ELSE <<Min(S)>> \o SortedSeq(S \ {Min(S)})

Keys(m) == {m[i].apn : i \in DOMAIN m}

\* ------------------------------------------------- Cardinality Partitioner
\* joined_gdf.groupby(apn)[zone].nunique(dropna=True)
ZonesPerApn(J) ==
    [a \in Keys(J) |->
        Cardinality({J[i].zone : i \in {k \in DOMAIN J : J[k].apn = a}} \ {null})]

SingleIds(J) == {a \in Keys(J) : ZonesPerApn(J)[a] = 1}

DupIds(J) == {a \in Keys(J) : ZonesPerApn(J)[a] > 1}

\* joined_gdf.loc[joined_gdf[apn].isin(single_ids)].set_index(apn)[zone]
SingleMap(J, ids) == SelectSeq(J, LAMBDA r : r.apn \in ids)

\* ------------------------------------------------------- Overlap Resolver
\* parcels.loc[parcels[apn].isin(dup_ids)]: the positions of the selected rows
DupRows(P, ids) == SortedSeq({i \in DOMAIN P : P[i] \in ids})

\* gpd.overlay(how="intersection", keep_geom_type=False): one record per
\* intersecting (parcel row, zone row) pair, parcel rows first, then zone rows.
Overlay(P, Z, rows, g) ==
    LET n == Len(Z)
        pair(k) == <<rows[((k - 1) \div n) + 1], ((k - 1) % n) + 1>>
        all == [k \in 1..(Len(rows) * n) |->
                  [row |-> pair(k)[1], apn |-> P[pair(k)[1]],
                   zone |-> Z[pair(k)[2]], geometry |-> g[pair(k)]]]
    IN  SelectSeq(all, LAMBDA r : r.geometry # NoGeom)

\* the check of the estimate left out
NoCrsNever(r) == FALSE

\* area_crs is None: estimate_utm_crs() found no projected CRS

NoCrs(r) == r = "none"

\* GeoSeries.area: lines and points have area 0
GeomArea(g) == IF g.type = "Polygon" THEN g.size ELSE 0

WithArea(ovr) ==
    [k \in DOMAIN ovr |->
        [row |-> ovr[k].row, apn |-> ovr[k].apn, zone |-> ovr[k].zone,
         overlap_area |-> GeomArea(ovr[k].geometry)]]

\* the area filter left out
PolyAreaAll(ovr) == ovr

\* ovr_area[ovr_area["overlap_area"] > 0]

PolyArea(ovr) == SelectSeq(ovr, LAMBDA r : r.overlap_area > 0)

\* the last position of the maximum
IdxMaxLast(pa, a) ==
    CHOOSE k \in DOMAIN pa :
        /\ pa[k].apn = a
        /\ \A j \in DOMAIN pa : pa[j].apn = a => pa[j].overlap_area <= pa[k].overlap_area
        /\ \A j \in DOMAIN pa :
              (pa[j].apn = a /\ pa[j].overlap_area = pa[k].overlap_area) => j <= k

\* groupby(apn)["overlap_area"].idxmax(): the first position of the maximum
IdxMax(pa, a) ==
    CHOOSE k \in DOMAIN pa :
        /\ pa[k].apn = a
        /\ \A j \in DOMAIN pa : pa[j].apn = a => pa[j].overlap_area <= pa[k].overlap_area
        /\ \A j \in DOMAIN pa :
              (pa[j].apn = a /\ pa[j].overlap_area = pa[k].overlap_area) => k <= j

\* poly_area.loc[idx].set_index(apn)[zone]
MultiMap(pa) ==
    LET ks == SortedSeq(Keys(pa))
    IN  [n \in DOMAIN ks |-> [apn |-> ks[n], zone |-> pa[IdxMax(pa, ks[n])].zone]]

\* ------------------------------------------------------------ Label Merger
\* GroupBy.last(): the last entry of the group, whatever it is
LastAny(m, a) ==
    LET idx == {i \in DOMAIN m : m[i].apn = a}
    IN  m[CHOOSE i \in idx : \A j \in idx : j <= i].zone

\* GroupBy.last(): the last non-null entry of the group, null if there is none
LastValid(m, a) ==
    LET idx == {i \in DOMAIN m : m[i].apn = a /\ m[i].zone # null}
    IN  IF idx = {} THEN null ELSE m[CHOOSE i \in idx : \A j \in idx : j <= i].zone

\* pd.concat([single_map, multi_map]) without the groupby
FinalMapNoGroup(single, multi) == single \o multi

\* pd.concat([single_map, multi_map]).groupby(level=0).last()
FinalMap(single, multi) ==
    LET m == single \o multi
        ks == SortedSeq(Keys(m))
    IN  [n \in DOMAIN ks |-> [apn |-> ks[n], zone |-> LastValid(m, ks[n])]]

\* parcels.merge(final_map, left_on=apn, right_index=True, how="left")
RECURSIVE LeftMergeFrom(_, _, _)
LeftMergeFrom(P, fm, i) ==
    IF i > Len(P) THEN <<>>
    ELSE LET hits == SelectSeq(fm, LAMBDA e : e.apn = P[i])
             rows == IF hits = <<>>
                     THEN <<[row |-> i, apn |-> P[i], zone_out |-> null]>>
                     ELSE [k \in DOMAIN hits |->
                             [row |-> i, apn |-> P[i], zone_out |-> hits[k].zone]]
         IN  rows \o LeftMergeFrom(P, fm, i + 1)

\* the map joined to the parcels by row position instead of by identifier
LeftMergeByPosition(P, fm) ==
    [i \in DOMAIN P |->
        [row |-> i, apn |-> P[i],
         zone_out |-> IF i <= Len(fm) THEN fm[i].zone ELSE null]]

LeftMerge(P, fm) == LeftMergeFrom(P, fm, 1)

\* ------------------------------------------------------------------ states
Blank ==
    /\ stages = {}
    /\ single_ids = {}
    /\ single_map = <<>>
    /\ dup_ids = {}
    /\ overlaps = <<>>
    /\ crs = "unset"
    /\ poly_area = <<>>
    /\ multi_map = <<>>
    /\ final_map = <<>>
    /\ out = <<>>

\* well-formed inputs: every required attribute is present
Init ==
    /\ parcels \in ParcelColls
    /\ zones \in ZoneColls
    /\ joined \in JoinColls
    /\ missing = {}
    /\ pc = "partition"
    /\ Blank

Inputs == <<parcels, zones, joined, missing>>

Raise ==
    /\ pc' = "error"
    /\ UNCHANGED stages

\* lines 27-35
Partition ==
    /\ pc = "partition"
    /\ IF "joined.apn" \in missing \/ "joined.zone" \in missing
       THEN Raise /\ UNCHANGED <<single_ids, single_map, dup_ids>>
       ELSE /\ single_ids' = SingleIds(joined)
            /\ single_map' = SingleMap(joined, SingleIds(joined))
            /\ dup_ids' = DupIds(joined)
            /\ stages' = stages \cup {"partition"}
            /\ pc' = IF DupIds(joined) # {} THEN "overlay" ELSE "merge"
    /\ UNCHANGED <<Inputs, overlaps, crs, poly_area, multi_map, final_map, out>>

\* lines 39-46
OverlayStep ==
    /\ pc = "overlay"
    /\ IF {"parcels.apn", "parcels.geometry", "zones.zone", "zones.geometry"}
             \cap missing # {}
       THEN Raise /\ UNCHANGED overlaps
       ELSE LET rows == DupRows(parcels, dup_ids)
            IN  \E g \in [Range(rows) \X DOMAIN zones -> Geoms] :
                   /\ overlaps' = Overlay(parcels, zones, rows, g)
                   /\ stages' = stages \cup {"overlay"}
                   /\ pc' = "crs"
    /\ UNCHANGED <<Inputs, single_ids, single_map, dup_ids, crs, poly_area,
                   multi_map, final_map, out>>

\* lines 49-52
Crs ==
    /\ pc = "crs"
    /\ \E r \in {"utm", "none"} :
          /\ crs' = r
          /\ IF NoCrs(r)
             THEN Raise
             ELSE /\ stages' = stages \cup {"crs"}
                  /\ pc' = "area"
    /\ UNCHANGED <<Inputs, single_ids, single_map, dup_ids, overlaps, poly_area,
                   multi_map, final_map, out>>

\* lines 55-56
Area ==
    /\ pc = "area"
    /\ poly_area' = PolyArea(WithArea(overlaps))
    /\ stages' = stages \cup {"area"}
    /\ pc' = "select"
    /\ UNCHANGED <<Inputs, single_ids, single_map, dup_ids, overlaps, crs,
                   multi_map, final_map, out>>

\* lines 58-64
Select ==
    /\ pc = "select"
    /\ multi_map' = IF poly_area # <<>> THEN MultiMap(poly_area) ELSE <<>>
    /\ stages' = stages \cup {"select"}
    /\ pc' = "merge"
    /\ UNCHANGED <<Inputs, single_ids, single_map, dup_ids, overlaps, crs,
                   poly_area, final_map, out>>

\* lines 68-75
Merge ==
    /\ pc = "merge"
    /\ final_map' = FinalMap(single_map, multi_map)
    /\ IF "parcels.apn" \in missing
       THEN Raise /\ UNCHANGED out
       ELSE /\ out' = LeftMerge(parcels, FinalMap(single_map, multi_map))
            /\ stages' = stages \cup {"merge"}
            /\ pc' = "done"
    /\ UNCHANGED <<Inputs, single_ids, single_map, dup_ids, overlaps, crs,
                   poly_area, multi_map>>

Next == Partition \/ OverlayStep \/ Crs \/ Area \/ Select \/ Merge

Spec == Init /\ [][Next]_vars

\* ------------------------------------------- inputs that lack an attribute
\* any set of required attributes may be missing; the collections are short
InitPre ==
    /\ parcels \in {p \in ParcelColls : Len(p) < MaxParcels}
    /\ zones \in {z \in ZoneColls : Len(z) < MaxZones}
    /\ joined \in {j \in JoinColls : Len(j) < MaxJoin}
    /\ missing \in SUBSET Attrs
    /\ pc = "partition"
    /\ Blank

SpecPre == InitPre /\ [][Next]_vars

\* ------------------------------------------- inputs of good data quality
\* parcel identifiers are unique and every zone polygon carries a label of the
\* join records; a label may be carried by several polygons
InitUnique ==
    /\ parcels \in {p \in ParcelColls : \A i, j \in DOMAIN p : p[i] = p[j] => i = j}
    /\ zones \in BSeq(JoinLabels, MaxZones + 1)
    /\ joined \in {j \in JoinColls : Len(j) < MaxJoin}
    /\ missing = {}
    /\ pc = "partition"
    /\ Blank

SpecUnique == InitUnique /\ [][Next]_vars

\* ------------------------------------------------ the Label Merger alone
\* a mapping as the resolver builds it: one entry per identifier, sorted
Mappings ==
    {m \in BSeq([apn : Ids, zone : ZoneLabels \cup {null}], Cardinality(Ids)) :
        \A i, j \in DOMAIN m : i < j => m[i].apn < m[j].apn}

InitMerge ==
    /\ parcels \in ParcelColls
    /\ zones = <<>>
    /\ joined = <<>>
    /\ missing = {}
    /\ pc = "merge"
    /\ stages = {}
    /\ single_ids = {}
    /\ dup_ids = {}
    /\ overlaps = <<>>
    /\ crs = "unset"
    /\ poly_area = <<>>
    /\ final_map = <<>>
    /\ out = <<>>
    /\ single_map \in JoinColls
    /\ multi_map \in Mappings

NextMerge == Merge

SpecMerge == InitMerge /\ [][NextMerge]_vars

\* ------------------------------------------------------------- properties
RowsOf(i) == {k \in DOMAIN out : out[k].row = i}

\* the distinct non-null zone labels the join records carry for identifier a
Candidates(a) == {joined[k].zone : k \in {n \in DOMAIN joined : joined[n].apn = a}} \ {null}

\* the overlay records of identifier a with strictly positive area
Positive(a) ==
    {k \in DOMAIN overlaps : overlaps[k].apn = a /\ GeomArea(overlaps[k].geometry) > 0}

RECURSIVE SumArea(_)
SumArea(S) ==
    IF S = {} THEN 0
    ELSE LET k == Min(S) IN GeomArea(overlaps[k].geometry) + SumArea(S \ {k})

\* the intersection area of parcel row i with the zone labelled a
TrueArea(i, a) ==
    SumArea({k \in DOMAIN overlaps : overlaps[k].row = i /\ overlaps[k].zone = a})

\* C1: when the operation completes, the output has exactly one row per input
\* parcel row, in the input's order and with its identifier: nothing is
\* dropped and nothing is duplicated, whether identifiers are unique or not.
RowCountInvariant ==
    pc = "done" =>
        /\ Len(out) = Len(parcels)
        /\ \A i \in DOMAIN out : out[i].row = i /\ out[i].apn = parcels[i]

RowCountWitness ==
    /\ pc = "done"
    /\ Len(parcels) = 2
    /\ parcels[1] = parcels[2]
    /\ Cardinality({k \in DOMAIN joined : joined[k].apn = parcels[1]}) >= 2
    /\ Len(out) = 2
    /\ out[1].zone_out # null
    /\ out[2].zone_out # null

\* C2: every final label that is set is one of the zone labels the join records
\* carry for that parcel's identifier.
LabelMembership ==
    pc = "done" =>
        \A k \in DOMAIN out :
            out[k].zone_out # null => out[k].zone_out \in Candidates(out[k].apn)

\* C3: an ambiguous parcel whose candidates are {a, b} and whose intersection
\* area with zone a exceeds that with zone b gets the final label a.
MaxAreaSelection ==
    pc = "done" =>
        \A i \in DOMAIN parcels : \A a, b \in JoinLabels :
            ( /\ Candidates(parcels[i]) = {a, b}
              /\ a # b
              /\ TrueArea(i, a) > TrueArea(i, b) )
            => /\ RowsOf(i) # {}
               /\ \A k \in RowsOf(i) : out[k].zone_out = a

\* C4: a parcel with exactly one distinct non-null label z in the join records
\* gets the final label z, however many rows carry z and whether or not other
\* rows of the parcel carry a null label.
PassThroughUnambiguous ==
    pc = "done" =>
        \A i \in DOMAIN parcels : \A z \in JoinLabels :
            Candidates(parcels[i]) = {z}
            => /\ RowsOf(i) # {}
               /\ \A k \in RowsOf(i) : out[k].zone_out = z

PassThroughWitness ==
    /\ pc = "done"
    /\ \E i \in DOMAIN parcels : \E z \in JoinLabels :
          /\ Candidates(parcels[i]) = {z}
          /\ \E k \in DOMAIN joined : joined[k].apn = parcels[i] /\ joined[k].zone = null
          /\ \E k \in RowsOf(i) : out[k].zone_out = z

\* C5: a parcel whose identifier has no join record gets an unset final label,
\* whatever the other parcels get.
NoMatchPassthrough ==
    pc = "done" =>
        \A i \in DOMAIN parcels :
            parcels[i] \notin Keys(joined)
            => /\ RowsOf(i) # {}
               /\ \A k \in RowsOf(i) : out[k].zone_out = null

NoMatchWitness ==
    /\ pc = "done"
    /\ multi_map # <<>>
    /\ \E i, j \in DOMAIN parcels :
          /\ parcels[i] \notin Keys(joined)
          /\ \E k \in RowsOf(i) : out[k].zone_out = null
          /\ \E k \in RowsOf(j) : out[k].zone_out # null

\* C6: with a required attribute missing the operation never completes, and
\* when it ends in error no stage has been executed before.
FailFast ==
    missing # {} =>
        /\ pc # "done"
        /\ pc = "error" => stages = {}

\* C7: once no projected coordinate system is found the operation is in error
\* with no output and no merged map; areas are computed, and the later stages
\* entered, only with a projected coordinate system.
CrsFailureFatal ==
    /\ crs = "none" =>
          /\ pc = "error"
          /\ out = <<>>
          /\ final_map = <<>>
          /\ multi_map = <<>>
          /\ poly_area = <<>>
    /\ "area" \in stages => crs = "utm"
    /\ (dup_ids # {} /\ pc \in {"area", "select", "merge", "done"}) => crs = "utm"

CrsFailureWitness ==
    /\ pc = "error"
    /\ crs = "none"
    /\ single_map # <<>>
    /\ \E i, j \in DOMAIN parcels : parcels[i] \in dup_ids /\ parcels[j] \in single_ids

DegenerateExclusion ==
    /\ \A r \in Range(poly_area) : r.overlap_area > 0
    /\ \A e \in Range(multi_map) :
          \E k \in Positive(e.apn) : overlaps[k].zone = e.zone
    /\ pc = "done" =>
          \A i \in DOMAIN parcels :
              (parcels[i] \in dup_ids /\ Positive(parcels[i]) = {})
              => /\ RowsOf(i) # {}
                 /\ \A k \in RowsOf(i) : out[k].zone_out = null
    /\ pc = "error" => crs = "none"

DegenerateWitness ==
    /\ pc = "done"
    /\ \E i \in DOMAIN parcels :
          /\ parcels[i] \in dup_ids
          /\ \E k \in DOMAIN overlaps : overlaps[k].row = i
          /\ Positive(parcels[i]) = {}
          /\ \E k \in RowsOf(i) : out[k].zone_out = null

\* the positive-area overlay records of identifier a whose area is the maximum
MaxRecords(a) ==
    {k \in Positive(a) :
        \A j \in Positive(a) :
            GeomArea(overlaps[j].geometry) <= GeomArea(overlaps[k].geometry)}

\* C10: the label selected for an ambiguous parcel is that of the first record,
\* in the overlay's order, among those of maximum area.
TieBreakFirst ==
    \A e \in Range(multi_map) : e.zone = overlaps[Min(MaxRecords(e.apn))].zone

TieBreakWitness ==
    /\ pc = "done"
    /\ \E e \in Range(multi_map) : \E k, j \in MaxRecords(e.apn) :
          /\ k < j
          /\ overlaps[k].zone # overlaps[j].zone
          /\ overlaps[k].zone # null
          /\ overlaps[j].zone # null
          /\ \E n \in DOMAIN out : out[n].apn = e.apn /\ out[n].zone_out = e.zone

====
